---------------------------- MODULE Spec2Model ----------------------------
(***************************************************************************)
(* Model of src/bot.py: a Telegram bot that hands a one-time gift to the   *)
(* subscribers of a channel, keeps one row per user in the table `users`   *)
(* and reports aggregated statistics to the administrators.                *)
(*                                                                         *)
(* Python `str` values are modelled as sequences of one-character strings, *)
(* so that startswith, slicing and splitting are computed, not assumed.    *)
(* Python `None` / SQL NULL is the value None below, which is no string.   *)
(*                                                                         *)
(* The handlers are coroutines.  The code between two `await`s runs        *)
(* without interleaving (the database helpers are blocking calls), so one  *)
(* action of the model is the code of a handler from one `await` to the    *)
(* next; handlers of different updates interleave at the `await`s.         *)
(***************************************************************************)
EXTENDS Integers, Sequences, FiniteSets, TLC

(* ------------------------------ bounds -------------------------------- *)
\* handlers that run at the same time under Spec (1: one update after the other)
MaxConcurrent == 1
\* handlers that run at the same time under SpecRace
MaxRace == 3
\* Telegram user ids are 1..MaxUsers
MaxUsers == 1
\* datetime.utcnow() returns a value in 0..MaxClock
MaxClock == 1
\* the tables /stats is asked about hold up to MaxRows rows
MaxRows == 12
\* mark_gift_given is called up to MaxMarks times in a row under SpecMarks
MaxMarks == 3
\* the utm payloads of SpecParser hold up to MaxPairs pieces
MaxPairs == 2

(* ------------------------------ text ---------------------------------- *)
\* Python None and SQL NULL: a one-element sequence whose element is no character
None == <<"None">>

Min(a, b) == IF a <= b THEN a ELSE b
Max(a, b) == IF a >= b THEN a ELSE b

\* str.startswith(prefix)
startswith(s, prefix) ==
    /\ Len(s) >= Len(prefix)
    /\ SubSeq(s, 1, Len(prefix)) = prefix

\* s[n:]
slice_from(s, n) == SubSeq(s, n + 1, Len(s))

\* index of the first occurrence of the character c in s, 0 when there is none
find(s, c) ==
    IF \E i \in 1..Len(s) : s[i] = c
    THEN CHOOSE i \in 1..Len(s) : s[i] = c /\ \A j \in 1..(i - 1) : s[j] # c
    ELSE 0

\* s.split(c): the pieces of s between the occurrences of the character c
RECURSIVE split(_, _)
split(s, c) ==
    IF find(s, c) = 0
    THEN <<s>>
    ELSE <<SubSeq(s, 1, find(s, c) - 1)>> \o split(slice_from(s, find(s, c)), c)

\* s.split(c, 1): at most one cut, at the first occurrence of c
split1(s, c) ==
    IF find(s, c) = 0
    THEN <<s>>
    ELSE <<SubSeq(s, 1, find(s, c) - 1), slice_from(s, find(s, c))>>

\* s.replace('+', ' '), the part of urllib's unquoting that the alphabet of the
\* model can exercise (no payload of the model holds a '%')
unquote_plus(s) == [i \in 1..Len(s) |-> IF s[i] = "+" THEN " " ELSE s[i]]

\* urllib.parse.parse_qsl(qs): the (name, value) pairs of a query string, in order.
\* Empty pieces, pieces without '=' and pieces with an empty value are skipped
\* (strict_parsing=False, keep_blank_values=False).
RECURSIVE parse_pairs(_)
parse_pairs(pieces) ==
    IF pieces = << >>
    THEN << >>
    ELSE LET nv == split1(Head(pieces), "=")
             rest == parse_pairs(Tail(pieces))
         IN IF Head(pieces) = << >> \/ Len(nv) # 2 \/ nv[2] = << >>
            THEN rest
            ELSE <<[name |-> unquote_plus(nv[1]), value |-> unquote_plus(nv[2])]>> \o rest

parse_qsl(qs) == IF qs = << >> THEN << >> ELSE parse_pairs(split(qs, "&"))

\* parsed_get that takes the last value given for key
parsed_get_last(pairs, key) ==
    IF \E i \in 1..Len(pairs) : pairs[i].name = key
    THEN pairs[CHOOSE i \in 1..Len(pairs) :
                   /\ pairs[i].name = key
                   /\ \A j \in (i + 1)..Len(pairs) : pairs[j].name # key].value
    ELSE None

\* parse_qs(qs).get(key, [None])[0]: the first value given for key, or None
parsed_get(pairs, key) ==
    IF \E i \in 1..Len(pairs) : pairs[i].name = key
    THEN pairs[CHOOSE i \in 1..Len(pairs) :
                   /\ pairs[i].name = key
                   /\ \A j \in 1..(i - 1) : pairs[j].name # key].value
    ELSE None

\* Python truthiness of an optional str: None and "" are falsy
truthy(s) == s # None /\ s # << >>

UTM_MARKER == <<"u", "t", "m", ":">>
UTM_LITERAL == <<"u", "t", "m">>
KEY_UTM_SOURCE == <<"u", "t", "m", "_", "s", "o", "u", "r", "c", "e">>
KEY_UTM_MEDIUM == <<"u", "t", "m", "_", "m", "e", "d", "i", "u", "m">>
KEY_UTM_CAMPAIGN == <<"u", "t", "m", "_", "c", "a", "m", "p", "a", "i", "g", "n">>

\* parse_traffic_from_args(args): (traffic_source, utm_source, utm_medium, utm_campaign)
parse_traffic_from_args(args) ==
    IF args = << >>
    THEN [traffic_source |-> None, utm_source |-> None,
          utm_medium |-> None, utm_campaign |-> None]
    ELSE LET payload == args[1]
             parsed == parse_qsl(slice_from(payload, 4))
             utm_source == parsed_get(parsed, KEY_UTM_SOURCE)
         IN IF startswith(payload, UTM_MARKER)
            THEN [traffic_source |-> IF truthy(utm_source) THEN utm_source ELSE UTM_LITERAL,
                  utm_source |-> utm_source,
                  utm_medium |-> parsed_get(parsed, KEY_UTM_MEDIUM),
                  utm_campaign |-> parsed_get(parsed, KEY_UTM_CAMPAIGN)]
            ELSE [traffic_source |-> payload, utm_source |-> None,
                  utm_medium |-> None, utm_campaign |-> None]

\* upsert_user(user) as gift and button_handler call it: the defaults of the signature
NoTraffic ==
    [traffic_source |-> None, utm_source |-> None,
     utm_medium |-> None, utm_campaign |-> None]


(* ------------------------------ users table --------------------------- *)
\* COALESCE(a, b)
COALESCE(a, b) == IF a # None THEN a ELSE b

\* update.effective_user when the update carries no user
NoUser == [id |-> 0, username |-> None, first_name |-> None, last_name |-> None]

\* upsert_user as a plain replace of the row (INSERT OR REPLACE): the row of a
\* known user is written anew, is_gift_given FALSE included
upsert_user_replaces(tbl, user, traffic, now) ==
    IF user = NoUser
    THEN tbl
    ELSE [u \in DOMAIN tbl \cup {user.id} |->
             IF u = user.id
             THEN [username |-> user.username,
                   first_name |-> user.first_name,
                   last_name |-> user.last_name,
                   is_gift_given |-> FALSE,
                   traffic_source |-> traffic.traffic_source,
                   utm_source |-> traffic.utm_source,
                   utm_medium |-> traffic.utm_medium,
                   utm_campaign |-> traffic.utm_campaign,
                   created_at |-> now,
                   updated_at |-> now]
             ELSE tbl[u]]

\* upsert_user that keeps an attribution column once it is not NULL:
\* COALESCE(users.x, EXCLUDED.x)
upsert_user_first_touch(tbl, user, traffic, now) ==
    IF user = NoUser
    THEN tbl
    ELSE LET row ==
                 IF user.id \in DOMAIN tbl
                 THEN [tbl[user.id] EXCEPT
                          !.username = user.username,
                          !.first_name = user.first_name,
                          !.last_name = user.last_name,
                          !.updated_at = now,
                          !.traffic_source = COALESCE(@, traffic.traffic_source),
                          !.utm_source = COALESCE(@, traffic.utm_source),
                          !.utm_medium = COALESCE(@, traffic.utm_medium),
                          !.utm_campaign = COALESCE(@, traffic.utm_campaign)]
                 ELSE [username |-> user.username,
                       first_name |-> user.first_name,
                       last_name |-> user.last_name,
                       is_gift_given |-> FALSE,
                       traffic_source |-> traffic.traffic_source,
                       utm_source |-> traffic.utm_source,
                       utm_medium |-> traffic.utm_medium,
                       utm_campaign |-> traffic.utm_campaign,
                       created_at |-> now,
                       updated_at |-> now]
         IN [u \in DOMAIN tbl \cup {user.id} |-> IF u = user.id THEN row ELSE tbl[u]]

\* upsert_user whose update also writes created_at
upsert_user_restamps(tbl, user, traffic, now) ==
    IF user = NoUser
    THEN tbl
    ELSE LET row ==
                 IF user.id \in DOMAIN tbl
                 THEN [tbl[user.id] EXCEPT
                          !.username = user.username,
                          !.first_name = user.first_name,
                          !.last_name = user.last_name,
                          !.created_at = now,
                          !.updated_at = now,
                          !.traffic_source = COALESCE(traffic.traffic_source, @),
                          !.utm_source = COALESCE(traffic.utm_source, @),
                          !.utm_medium = COALESCE(traffic.utm_medium, @),
                          !.utm_campaign = COALESCE(traffic.utm_campaign, @)]
                 ELSE [username |-> user.username,
                       first_name |-> user.first_name,
                       last_name |-> user.last_name,
                       is_gift_given |-> FALSE,
                       traffic_source |-> traffic.traffic_source,
                       utm_source |-> traffic.utm_source,
                       utm_medium |-> traffic.utm_medium,
                       utm_campaign |-> traffic.utm_campaign,
                       created_at |-> now,
                       updated_at |-> now]
         IN [u \in DOMAIN tbl \cup {user.id} |-> IF u = user.id THEN row ELSE tbl[u]]

\* upsert_user whose update sets the four traffic columns to EXCLUDED.x, without
\* COALESCE
upsert_user_overwrites(tbl, user, traffic, now) ==
    IF user = NoUser
    THEN tbl
    ELSE LET row ==
                 IF user.id \in DOMAIN tbl
                 THEN [tbl[user.id] EXCEPT
                          !.username = user.username,
                          !.first_name = user.first_name,
                          !.last_name = user.last_name,
                          !.updated_at = now,
                          !.traffic_source = traffic.traffic_source,
                          !.utm_source = traffic.utm_source,
                          !.utm_medium = traffic.utm_medium,
                          !.utm_campaign = traffic.utm_campaign]
                 ELSE [username |-> user.username,
                       first_name |-> user.first_name,
                       last_name |-> user.last_name,
                       is_gift_given |-> FALSE,
                       traffic_source |-> traffic.traffic_source,
                       utm_source |-> traffic.utm_source,
                       utm_medium |-> traffic.utm_medium,
                       utm_campaign |-> traffic.utm_campaign,
                       created_at |-> now,
                       updated_at |-> now]
         IN [u \in DOMAIN tbl \cup {user.id} |-> IF u = user.id THEN row ELSE tbl[u]]

\* INSERT INTO users ... ON CONFLICT (user_id) DO UPDATE SET ...
\* tbl maps the user_id of every row of the table to the row's other columns.
upsert_user(tbl, user, traffic, now) ==
    IF user = NoUser
    THEN tbl
    ELSE LET row ==
                 IF user.id \in DOMAIN tbl
                 THEN [tbl[user.id] EXCEPT
                          !.username = user.username,
                          !.first_name = user.first_name,
                          !.last_name = user.last_name,
                          !.updated_at = now,
                          !.traffic_source = COALESCE(traffic.traffic_source, @),
                          !.utm_source = COALESCE(traffic.utm_source, @),
                          !.utm_medium = COALESCE(traffic.utm_medium, @),
                          !.utm_campaign = COALESCE(traffic.utm_campaign, @)]
                 ELSE [username |-> user.username,
                       first_name |-> user.first_name,
                       last_name |-> user.last_name,
                       is_gift_given |-> FALSE,
                       traffic_source |-> traffic.traffic_source,
                       utm_source |-> traffic.utm_source,
                       utm_medium |-> traffic.utm_medium,
                       utm_campaign |-> traffic.utm_campaign,
                       created_at |-> now,
                       updated_at |-> now]
         IN [u \in DOMAIN tbl \cup {user.id} |-> IF u = user.id THEN row ELSE tbl[u]]

\* has_gift that never finds the flag set
has_gift_never(tbl, user_id) == FALSE

\* SELECT is_gift_given FROM users WHERE user_id = %s; False when there is no row
has_gift(tbl, user_id) ==
    IF user_id \notin DOMAIN tbl THEN FALSE ELSE tbl[user_id].is_gift_given

\* mark_gift_given that only touches updated_at
mark_gift_given_forgets(tbl, user_id, now) ==
    [u \in DOMAIN tbl |->
        IF u = user_id THEN [tbl[u] EXCEPT !.updated_at = now] ELSE tbl[u]]

\* mark_gift_given that flips the flag
mark_gift_given_toggles(tbl, user_id, now) ==
    [u \in DOMAIN tbl |->
        IF u = user_id
        THEN [tbl[u] EXCEPT !.is_gift_given = ~@, !.updated_at = now]
        ELSE tbl[u]]

\* mark_gift_given whose UPDATE has no WHERE clause
mark_gift_given_all_rows(tbl, user_id, now) ==
    [u \in DOMAIN tbl |-> [tbl[u] EXCEPT !.is_gift_given = TRUE, !.updated_at = now]]

\* UPDATE users SET is_gift_given = TRUE, updated_at = %s WHERE user_id = %s
mark_gift_given(tbl, user_id, now) ==
    [u \in DOMAIN tbl |->
        IF u = user_id
        THEN [tbl[u] EXCEPT !.is_gift_given = TRUE, !.updated_at = now]
        ELSE tbl[u]]

(* ------------------------------ statistics ---------------------------- *)
\* LIMIT 10 of the sources query
STATS_LIMIT == 10

UNKNOWN == <<"u", "n", "k", "n", "o", "w", "n">>

\* COALESCE(traffic_source, 'unknown') AS src
src_of(row) == COALESCE(row.traffic_source, UNKNOWN)

\* the rows of one group of GROUP BY src
group_of(tbl, src) == {u \in DOMAIN tbl : src_of(tbl[u]) = src}

\* one row of the sources query: (src, COUNT(*), SUM(CASE WHEN is_gift_given ...))
source_row(tbl, src) ==
    [src |-> src,
     total |-> Cardinality(group_of(tbl, src)),
     gifted |-> Cardinality({u \in group_of(tbl, src) : tbl[u].is_gift_given})]

\* the smallest and the largest user_id of a group
first_id(tbl, src) == CHOOSE u \in group_of(tbl, src) : \A v \in group_of(tbl, src) : u <= v
last_id(tbl, src) == CHOOSE u \in group_of(tbl, src) : \A v \in group_of(tbl, src) : u >= v

\* The orders the database may return groups of equal total in: SQL leaves the
\* order of rows that tie on the ORDER BY key open.
TieOrders == {"first", "last"}

\* ORDER BY total DESC: whether group a comes before group b
comes_before(tbl, a, b, tie) ==
    LET ta == Cardinality(group_of(tbl, a))
        tb == Cardinality(group_of(tbl, b))
    IN \/ ta > tb
       \/ /\ ta = tb
          /\ IF tie = "first"
             THEN first_id(tbl, a) < first_id(tbl, b)
             ELSE last_id(tbl, a) > last_id(tbl, b)

RECURSIVE order_by_total(_, _, _)
order_by_total(tbl, srcs, tie) ==
    IF srcs = {}
    THEN << >>
    ELSE LET top == CHOOSE a \in srcs : \A b \in srcs \ {a} : comes_before(tbl, a, b, tie)
         IN <<source_row(tbl, top)>> \o order_by_total(tbl, srcs \ {top}, tie)

\* the sources query without its LIMIT
limit_none(rows, n) == rows

\* LIMIT n
limit(rows, n) == SubSeq(rows, 1, Min(Len(rows), n))

\* get_stats(): the three queries, read in one blocking call
get_stats(tbl, tie) ==
    [total_users |-> Cardinality(DOMAIN tbl),
     gifted_users |-> Cardinality({u \in DOMAIN tbl : tbl[u].is_gift_given}),
     sources |-> limit(order_by_total(tbl, {src_of(tbl[u]) : u \in DOMAIN tbl}, tie),
                       STATS_LIMIT)]

\* the value of `data` in a handler that has not called get_stats
NoData == [total_users |-> -1, gifted_users |-> -1, sources |-> << >>]

(* ------------------------------ admin ids ----------------------------- *)
Digits == <<"0", "1", "2", "3", "4", "5", "6", "7", "8", "9">>

\* str.strip() of the blanks of a piece
RECURSIVE strip(_)
strip(s) ==
    IF s # << >> /\ Head(s) = " " THEN strip(Tail(s))
    ELSE IF s # << >> /\ s[Len(s)] = " " THEN strip(SubSeq(s, 1, Len(s) - 1))
    ELSE s

\* str.isdigit(): non-empty and every character a digit
isdigit(s) == s # << >> /\ \A i \in 1..Len(s) : \E d \in 1..10 : Digits[d] = s[i]

\* int(s) of a string of digits
RECURSIVE int(_)
int(s) ==
    IF s = << >>
    THEN 0
    ELSE 10 * int(SubSeq(s, 1, Len(s) - 1))
         + (CHOOSE d \in 0..9 : Digits[d + 1] = s[Len(s)])

\* ADMIN_IDS = {int(x.strip()) for x in raw.split(",") if x.strip().isdigit()}
parse_admin_ids(raw) ==
    LET pieces == split(raw, ",")
    IN {int(strip(pieces[i])) : i \in {j \in 1..Len(pieces) : isdigit(strip(pieces[j]))}}

\* the test of stats(): not user or (ADMIN_IDS and user.id not in ADMIN_IDS)
stats_denied(user, admin_ids) ==
    user = NoUser \/ (admin_ids # {} /\ user.id \notin admin_ids)

(* ------------------------------ membership ---------------------------- *)
\* ChatMember.status values of the Bot API
Statuses == {"creator", "administrator", "member", "restricted", "left", "kicked"}

\* what get_chat_member does: it returns a member with a status, or it raises
ApiOutcomes == Statuses \cup {"raise"}

\* check_subscription that takes a failed call for a subscription
check_subscription_fail_open(outcome) ==
    outcome \in {"member", "administrator", "creator", "raise"}

\* check_subscription: True for the three accepted statuses, False when the
\* call raises (the except branch) and for every other status
check_subscription(outcome) ==
    IF outcome = "raise"
    THEN FALSE
    ELSE outcome \in {"member", "administrator", "creator"}

(* ------------------------------ inputs -------------------------------- *)
\* the profiles (username, first and last name) Telegram users show
Profiles ==
    <<[username |-> <<"a">>, first_name |-> <<"A">>, last_name |-> None],
      [username |-> None, first_name |-> <<"B">>, last_name |-> <<"C">>]>>

\* update.effective_user / query.from_user of the users with ids 1..n, each
\* showing one of the first k profiles
TgUsers(n, k) ==
    {[id |-> i, username |-> Profiles[j].username, first_name |-> Profiles[j].first_name,
      last_name |-> Profiles[j].last_name] : i \in 1..n, j \in 1..k}

\* a user who only ever sends /stats
Stranger(n) ==
    [id |-> n + 1, username |-> <<"s">>, first_name |-> <<"S">>, last_name |-> None]

\* "ig"
PAYLOAD_LABEL == <<"i", "g">>
\* "utm:utm_source=fb&utm_medium=x"
PAYLOAD_UTM ==
    <<"u", "t", "m", ":", "u", "t", "m", "_", "s", "o", "u", "r", "c", "e", "=", "f", "b",
      "&", "u", "t", "m", "_", "m", "e", "d", "i", "u", "m", "=", "x">>

\* query.data of the callback queries the model delivers
CallbackData == {"check_sub_again", "other"}

\* values of the environment variable ADMIN_IDS: unset, "1", " 1 , x", "x"
RawAdminIds == {<< >>, <<"1">>, <<" ", "1", " ", ",", " ", "x">>, <<"x">>}

\* What the updates of a run carry and what the Bot API answers in it.
\* The reward workflow: every handler, the user a member, not a member, or
\* the query failing.
FlowInputs ==
    [users |-> TgUsers(MaxUsers, 1),
     args |-> {<< >>},
     outcomes |-> {"member", "left", "raise"}]

\* Concurrent updates of one subscribed user.
RaceInputs ==
    [users |-> TgUsers(1, 1),
     args |-> {<< >>},
     outcomes |-> {"member", "left"}]

\* Updates of two users at a time: user 1 and user 2.
PairInputs ==
    [users |-> TgUsers(1, 1) \cup {Stranger(1)},
     args |-> {<< >>},
     outcomes |-> {"member", "left"}]

\* Updates of two subscribed users at a time.
ReportInputs ==
    [users |-> PairInputs.users,
     args |-> {<< >>},
     outcomes |-> {"member"}]

\* Every answer of get_chat_member.
VerifierInputs ==
    [users |-> TgUsers(1, 1),
     args |-> {<< >>},
     outcomes |-> ApiOutcomes]

\* A user who is not subscribed and comes back with other payloads and profiles.
LedgerInputs ==
    [users |-> TgUsers(1, 2),
     args |-> {<< >>, <<PAYLOAD_LABEL>>, <<PAYLOAD_UTM>>},
     outcomes |-> {"left", "raise"}]

\* The users who send /stats: user 1 and a user the table does not know.
StatsUsers == TgUsers(1, 1) \cup {Stranger(1)}

\* the start payloads "sa", "sb", ... the rows of a table came with; No. 0 is
\* a start without payload
Letters == <<"a", "b", "c", "d", "e", "f", "g", "h", "i", "j", "k", "l", "m", "n">>
SrcName(i) == IF i = 0 THEN None ELSE <<"s", Letters[i]>>

\* how the rows of a table spread over k sources: in turn ("round"), or one
\* row each and all the others without payload ("skew")
Spreads == {"round", "skew"}
spread(u, k, how) == IF how = "round" THEN u % k ELSE IF u < k THEN u ELSE 0

\* which rows have the gift: every g-th, none when g = 0
Gifts == {0, 1, 2}

\* the table after n users came from k sources and some of them got the gift
Table(n, k, how, g) ==
    [u \in 1..n |->
        [username |-> Profiles[1].username,
         first_name |-> Profiles[1].first_name,
         last_name |-> Profiles[1].last_name,
         is_gift_given |-> (g # 0 /\ u % g = 0),
         traffic_source |-> SrcName(spread(u, k, how)),
         utm_source |-> None,
         utm_medium |-> None,
         utm_campaign |-> None,
         created_at |-> 0,
         updated_at |-> 0]]

StatsTables ==
    {Table(n, k, how, g) : n \in 0..MaxRows, k \in 1..MaxRows, how \in Spreads, g \in Gifts}

(* ------------------------------ state --------------------------------- *)
VARIABLES
    users,          \* the table users: user_id -> row
    ADMIN_IDS,      \* the set parsed from the environment at import
    clock,          \* the latest value datetime.utcnow() returned
    pc,             \* per handler slot: where the handler stands
    handler,        \* per slot: the handler that runs in it
    user_id,        \* per slot: user.id of the handler (0: none)
    traffic,        \* per slot: the locals traffic_source, utm_* of start
    member,         \* per slot: what get_chat_member answered the handler ("-": not yet)
    is_subscribed,  \* per slot: the handler's local is_subscribed
    data,           \* per slot: the value get_stats() returned to stats
    context_args,   \* per slot: context.args of the update the handler got
    calls           \* per slot: the calls the handler made, in order

vars ==
    <<users, ADMIN_IDS, clock, pc, handler, user_id, traffic, member, is_subscribed, data,
      context_args, calls>>

\* the slots handlers run in
Slots == 1..Max(MaxConcurrent, MaxRace)

\* a blocking database call either commits or raises and rolls back
\* (`with conn:`); an awaited Bot API call either returns or raises
Returns == {"ok", "raise"}

\* the values datetime.utcnow() may return next
Now == clock..Min(clock + 1, MaxClock)

\* the state after import and init_db() with `running` handler slots
Started(running, table, raws) ==
    /\ users = table
    /\ ADMIN_IDS \in {parse_admin_ids(raw) : raw \in raws}
    /\ clock = 0
    /\ pc = [p \in Slots |-> IF p <= running THEN "idle" ELSE "off"]
    /\ handler = [p \in Slots |-> "-"]
    /\ user_id = [p \in Slots |-> 0]
    /\ traffic = [p \in Slots |-> NoTraffic]
    /\ member = [p \in Slots |-> "-"]
    /\ is_subscribed = [p \in Slots |-> FALSE]
    /\ data = [p \in Slots |-> NoData]
    /\ context_args = [p \in Slots |-> << >>]
    /\ calls = [p \in Slots |-> << >>]

Init == Started(MaxConcurrent, << >>, {<< >>})

\* a handler is over when it returned or raised; its locals and the record
\* of its calls are gone then, but for the call that raised
over(at) == at \in {"done", "raised"}

\* a slot is free before its first handler and after a handler is over
free(p) == pc[p] = "idle" \/ over(pc[p])

\* the next update is handled in the first free slot
arrives(p) == free(p) /\ \A q \in Slots : q < p => ~free(q)

\* slot p: the handler `name` of `user`, got with the arguments a, stands at
\* `to` with the calls `made` behind it, the last of them the one that raised
\* when `to` is "raised", and the locals t (traffic), m (member),
\* s (is_subscribed), d (data)
lays(p, name, user, to, made, t, m, s, d, a) ==
    /\ pc' = [pc EXCEPT ![p] = to]
    /\ calls' = [calls EXCEPT ![p] = IF to = "done" THEN << >>
                                     ELSE IF to = "raised" THEN <<made[Len(made)]>>
                                     ELSE made]
    /\ handler' = [handler EXCEPT ![p] = IF over(to) THEN "-" ELSE name]
    /\ user_id' = [user_id EXCEPT ![p] = IF over(to) THEN 0 ELSE user]
    /\ traffic' = [traffic EXCEPT ![p] = IF over(to) THEN NoTraffic ELSE t]
    /\ member' = [member EXCEPT ![p] = IF over(to) THEN "-" ELSE m]
    /\ is_subscribed' = [is_subscribed EXCEPT ![p] = IF over(to) THEN FALSE ELSE s]
    /\ data' = [data EXCEPT ![p] = IF over(to) THEN NoData ELSE d]
    /\ context_args' = [context_args EXCEPT ![p] = IF over(to) THEN << >> ELSE a]
    /\ UNCHANGED ADMIN_IDS

\* the same for a handler that is running: its update stays the one it got
stands(p, name, user, to, made, t, m, s, d) ==
    lays(p, name, user, to, made, t, m, s, d, context_args[p])

\* the handler `name` starts in slot p on an update with the arguments a and
\* runs to `to`, making the calls `made`
begins(p, name, user, t, to, made, a) ==
    /\ arrives(p)
    /\ lays(p, name, user.id, to, made, t, "-", FALSE, NoData, a)

\* the handler of slot p runs on to `to`, making the calls `made`
goes(p, to, made) ==
    stands(p, handler[p], user_id[p], to, calls[p] \o made,
           traffic[p], member[p], is_subscribed[p], data[p])

\* an awaited call returns (the handler goes on to `to`) or raises (it ends)
after(r, to) == IF r = "ok" THEN to ELSE "raised"

(* ------------------------------ handlers ------------------------------ *)
\* the first lines of start, gift and button_handler, to the await of
\* get_chat_member: the row is written, or upsert_user raises and nothing is
enters(p, name, user, t, made, a) ==
    \/ /\ user = NoUser
       /\ begins(p, name, user, t, "done", made, a)
       /\ UNCHANGED <<users, clock>>
    \/ /\ user # NoUser
       /\ \E now \in Now :
             /\ users' = upsert_user(users, user, t, now)
             /\ clock' = now
       /\ begins(p, name, user, t, "get_chat_member",
                 made \o <<"upsert_user", "get_chat_member">>, a)
    \/ /\ user # NoUser
       /\ begins(p, name, user, t, "raised", made \o <<"upsert_user">>, a)
       /\ UNCHANGED <<users, clock>>

\* start, lines 339-358
start(p, user, args) ==
    enters(p, "start", user, parse_traffic_from_args(args), << >>, args)

\* gift, lines 427-435
gift(p, user) == enters(p, "gift", user, NoTraffic, << >>, << >>)

\* button_handler, lines 394-407: query.answer() is awaited first
button_handler(p, user, query_data) ==
    \/ /\ query_data = "check_sub_again"
       /\ enters(p, "button_handler", user, NoTraffic, <<"answer">>, << >>)
    \/ /\ query_data # "check_sub_again"
       /\ begins(p, "button_handler", user, NoTraffic, "done", <<"answer">>, << >>)
       /\ UNCHANGED <<users, clock>>
    \/ /\ begins(p, "button_handler", user, NoTraffic, "raised", <<"answer">>, << >>)
       /\ UNCHANGED <<users, clock>>

\* get_chat_member answers with a status or raises
get_chat_member_answers(p, outcome) ==
    /\ pc[p] = "get_chat_member"
    /\ stands(p, handler[p], user_id[p], "check_subscription", calls[p],
              traffic[p], outcome, is_subscribed[p], data[p])
    /\ UNCHANGED <<users, clock>>

\* the message a handler sends when the user is not subscribed
join_prompt(name) ==
    CASE name = "start" -> "send_message:join_keyboard"
      [] name = "gift" -> "send_message:join_text"
      [] OTHER -> "edit_message_text:not_subscribed"

\* The callback_data of the buttons the message shows after the call: start
\* sends its prompt with reply_markup=keyboard (a url button and the button
\* "check_sub_again"); gift sends text only; button_handler edits the text
\* without reply_markup, and an editMessageText without reply_markup leaves the
\* message without inline keyboard.
reply_markup_of(call) ==
    IF call = "send_message:join_keyboard" THEN {"url", "check_sub_again"} ELSE {}

\* process_gift_flow that writes the flag before it sends the gift
process_gift_flow_marks_first(p, made, s) ==
    \/ /\ has_gift(users, user_id[p])
       /\ UNCHANGED <<users, clock>>
       /\ stands(p, handler[p], user_id[p], "send_message",
                 made \o <<"has_gift", "send_message:already">>,
                 traffic[p], member[p], s, NoData)
    \/ /\ ~has_gift(users, user_id[p])
       /\ \E now \in Now :
             /\ users' = mark_gift_given(users, user_id[p], now)
             /\ clock' = now
       /\ stands(p, handler[p], user_id[p], "send_gift",
                 made \o <<"has_gift", "mark_gift_given", "send_gift">>,
                 traffic[p], member[p], s, NoData)
    \/ /\ UNCHANGED <<users, clock>>
       /\ stands(p, handler[p], user_id[p], "raised", made \o <<"has_gift">>,
                 traffic[p], member[p], s, NoData)

\* process_gift_flow to its first await: has_gift, then the notice or send_gift;
\* `made` are the calls the handler made before it, s is its is_subscribed
process_gift_flow(p, made, s) ==
    /\ UNCHANGED <<users, clock>>
    /\ \/ /\ has_gift(users, user_id[p])
          /\ stands(p, handler[p], user_id[p], "send_message",
                    made \o <<"has_gift", "send_message:already">>,
                    traffic[p], member[p], s, NoData)
       \/ /\ ~has_gift(users, user_id[p])
          /\ stands(p, handler[p], user_id[p], "send_gift",
                    made \o <<"has_gift", "send_gift">>,
                    traffic[p], member[p], s, NoData)
       \/ stands(p, handler[p], user_id[p], "raised", made \o <<"has_gift">>,
                 traffic[p], member[p], s, NoData)

\* check_subscription_returns without the test of is_subscribed
check_subscription_returns_ungated(p) ==
    /\ pc[p] = "check_subscription"
    /\ process_gift_flow(p, calls[p], check_subscription(member[p]))

\* check_subscription returns to the handler, which goes on to its next await,
\* lines 273-289, 358-387, 407-420, 435-446
check_subscription_returns(p) ==
    /\ pc[p] = "check_subscription"
    /\ IF check_subscription(member[p])
       THEN IF handler[p] = "button_handler"
            THEN /\ stands(p, handler[p], user_id[p], "delete",
                           calls[p] \o <<"delete">>,
                           traffic[p], member[p], TRUE, NoData)
                 /\ UNCHANGED <<users, clock>>
            ELSE process_gift_flow(p, calls[p], TRUE)
       ELSE /\ stands(p, handler[p], user_id[p], "send_message",
                      calls[p] \o <<join_prompt(handler[p])>>,
                      traffic[p], member[p], FALSE, NoData)
            /\ UNCHANGED <<users, clock>>

\* query.message.delete() returns or raises (the except passes), lines 410-415
delete_returns(p) ==
    /\ pc[p] = "delete"
    /\ process_gift_flow(p, calls[p], is_subscribed[p])

\* send_gift_returns whose failing mark_gift_given has written the flag
send_gift_returns_halfway(p) ==
    /\ pc[p] = "send_gift"
    /\ \/ /\ \E now \in Now :
                /\ users' = mark_gift_given(users, user_id[p], now)
                /\ clock' = now
          /\ goes(p, "done", <<"mark_gift_given">>)
       \/ /\ \E now \in Now :
                /\ users' = mark_gift_given(users, user_id[p], now)
                /\ clock' = now
          /\ goes(p, "raised", <<"mark_gift_given">>)
       \/ /\ goes(p, "raised", << >>)
          /\ UNCHANGED <<users, clock>>

\* send_gift returns and mark_gift_given runs, or one of the two raises,
\* lines 308-309
send_gift_returns(p) ==
    /\ pc[p] = "send_gift"
    /\ \/ /\ \E now \in Now :
                /\ users' = mark_gift_given(users, user_id[p], now)
                /\ clock' = now
          /\ goes(p, "done", <<"mark_gift_given">>)
       \/ /\ goes(p, "raised", <<"mark_gift_given">>)
          /\ UNCHANGED <<users, clock>>
       \/ /\ goes(p, "raised", << >>)
          /\ UNCHANGED <<users, clock>>

\* the last message of a handler is sent, or the call raises: the handler ends
send_message_returns(p) ==
    /\ pc[p] = "send_message"
    /\ \E r \in Returns : goes(p, after(r, "done"), << >>)
    /\ UNCHANGED <<users, clock>>

\* stats, lines 454-486
\* stats that begins like the handlers of the reward workflow, with an upsert
\* of the user who asks
stats_upserts(p, user) ==
    \/ /\ user = NoUser
       /\ begins(p, "stats", user, NoTraffic, "send_message", <<"send_message:denied">>,
                 << >>)
       /\ UNCHANGED <<users, clock>>
    \/ /\ user # NoUser
       /\ users' = upsert_user(users, user, NoTraffic, clock)
       /\ begins(p, "stats", user, NoTraffic, "send_message",
                 <<"upsert_user", "send_message:denied">>, << >>)
       /\ UNCHANGED clock

\* stats whose get_stats gives way to other handlers after its first query
stats_reads_apart(p, user) ==
    /\ UNCHANGED <<users, clock>>
    /\ \/ /\ user # NoUser
          /\ arrives(p)
          /\ stands(p, "stats", user.id, "get_stats", <<"get_stats">>, NoTraffic, "-", FALSE,
                    [NoData EXCEPT !.total_users = Cardinality(DOMAIN users)])
       \/ /\ pc[p] = "get_stats"
          /\ \E tie \in TieOrders :
                stands(p, "stats", user_id[p], "send_message",
                       calls[p] \o <<"send_message:report">>, NoTraffic, "-", FALSE,
                       [get_stats(users, tie) EXCEPT !.total_users = data[p].total_users])

stats(p, user) ==
    /\ UNCHANGED <<users, clock>>
    /\ \/ /\ stats_denied(user, ADMIN_IDS)
          /\ begins(p, "stats", user, NoTraffic, "send_message", <<"send_message:denied">>,
                 << >>)
       \/ /\ ~stats_denied(user, ADMIN_IDS)
          /\ arrives(p)
          /\ \E tie \in TieOrders :
                stands(p, "stats", user.id, "send_message",
                       <<"get_stats", "send_message:report">>,
                       NoTraffic, "-", FALSE, get_stats(users, tie))
       \/ /\ ~stats_denied(user, ADMIN_IDS)
          /\ begins(p, "stats", user, NoTraffic, "raised", <<"get_stats">>, << >>)

(* ------------------------------ specifications ----------------------- *)
\* an update arrives and its handler runs to its first await
Triggers(inp) ==
    \E p \in Slots :
        \/ \E user \in inp.users \cup {NoUser}, args \in inp.args : start(p, user, args)
        \/ \E user \in inp.users \cup {NoUser} : gift(p, user)
        \/ \E user \in inp.users, d \in CallbackData : button_handler(p, user, d)

\* the Bot API answers a get_chat_member
Answers(inp) ==
    \E p \in Slots, outcome \in inp.outcomes : get_chat_member_answers(p, outcome)

\* a handler of the reward workflow resumes after an await
Resumes ==
    \E p \in Slots :
        \/ check_subscription_returns(p)
        \/ delete_returns(p)
        \/ send_gift_returns(p)
        \/ send_message_returns(p)

\* the reward workflow, MaxConcurrent handlers at a time
Next == Triggers(FlowInputs) \/ Answers(FlowInputs) \/ Resumes

Spec == Init /\ [][Next]_vars

\* the reward workflow of one subscribed user, MaxRace handlers at a time
InitRace == Started(MaxRace, << >>, {<< >>})
NextRace == Triggers(RaceInputs) \/ Answers(RaceInputs) \/ Resumes
SpecRace == InitRace /\ [][NextRace]_vars

\* the reward workflow under every answer of get_chat_member
NextVerifier == Triggers(VerifierInputs) \/ Answers(VerifierInputs) \/ Resumes
SpecVerifier == Init /\ [][NextVerifier]_vars

\* the ledger under the updates of users who are not subscribed
NextLedger ==
    \/ Triggers(LedgerInputs)
    \/ Answers(LedgerInputs)
    \/ \E p \in Slots : check_subscription_returns(p) \/ send_message_returns(p)
SpecLedger == Init /\ [][NextLedger]_vars

\* the reward workflow of two users, as many handlers at a time as users
InitPair == Started(Cardinality(PairInputs.users), << >>, {<< >>})
NextPair == Triggers(PairInputs) \/ Answers(PairInputs) \/ Resumes
SpecPair == InitPair /\ [][NextPair]_vars

\* /stats of two subscribed users among their other updates
NextReport ==
    \/ Triggers(ReportInputs)
    \/ Answers(ReportInputs)
    \/ Resumes
    \/ \E p \in Slots, user \in ReportInputs.users \cup {NoUser} : stats(p, user)
SpecReport == InitPair /\ [][NextReport]_vars

\* /stats over the tables of StatsTables, under every value of ADMIN_IDS, one
\* handler at a time: stats() only reads the table
Reports == \E p \in Slots, user \in StatsUsers \cup {NoUser} : stats(p, user)
InitStats == \E table \in StatsTables : Started(1, table, RawAdminIds)
NextStats == Reports \/ \E p \in Slots : send_message_returns(p)
SpecStats == InitStats /\ [][NextStats]_vars

\* "utm:utm_source=insta&utm_medium=story&utm_campaign=launch1" (the docstring)
PAYLOAD_EXAMPLE ==
    <<"u", "t", "m", ":", "u", "t", "m", "_", "s", "o", "u", "r", "c", "e", "=", "i", "n",
      "s", "t", "a", "&", "u", "t", "m", "_", "m", "e", "d", "i", "u", "m", "=", "s", "t",
      "o", "r", "y", "&", "u", "t", "m", "_", "c", "a", "m", "p", "a", "i", "g", "n", "=",
      "l", "a", "u", "n", "c", "h", "1">>
\* "utm:utm_source": a piece without '='
PAYLOAD_NO_EQUALS ==
    <<"u", "t", "m", ":", "u", "t", "m", "_", "s", "o", "u", "r", "c", "e">>

\* The pieces of the utm payloads SpecParser parses: a name, and a value as it
\* is written in the payload (text) and as the characters it stands for in
\* query-string encoding (means); an empty value stands for nothing.
PieceNames == {KEY_UTM_SOURCE, KEY_UTM_MEDIUM, KEY_UTM_CAMPAIGN, <<"x">>}
PieceValues ==
    {[text |-> <<"a">>, means |-> <<"a">>],
     [text |-> <<"b", "+", "c">>, means |-> <<"b", " ", "c">>],
     [text |-> << >>, means |-> << >>]}
Pieces == [name : PieceNames, value : PieceValues]

\* the lists of up to n pieces
RECURSIVE Queries(_)
Queries(n) ==
    IF n = 0
    THEN {<< >>}
    ELSE Queries(n - 1) \cup {<<piece>> \o q : piece \in Pieces, q \in {r \in Queries(n - 1) : Len(r) = n - 1}}

\* the payload "utm:name=text&name=text..." of a list of pieces
RECURSIVE joined(_)
joined(q) ==
    IF q = << >>
    THEN << >>
    ELSE Head(q).name \o <<"=">> \o Head(q).value.text
            \o (IF Tail(q) = << >> THEN << >> ELSE <<"&">> \o joined(Tail(q)))
payload_of(q) == UTM_MARKER \o joined(q)

\* context.args of the /start updates SpecParser parses
ParserArgs ==
    {<< >>, <<PAYLOAD_LABEL>>, <<PAYLOAD_EXAMPLE>>, <<PAYLOAD_NO_EQUALS>>,
     <<PAYLOAD_UTM, PAYLOAD_LABEL>>}
        \cup {<<payload_of(q)>> : q \in Queries(MaxPairs)}

\* parse_traffic_from_args(context.args), as start calls it, on the arguments of
\* ParserArgs; the result is kept in the locals of the slot
parses(p, a) ==
    /\ begins(p, "parse_traffic_from_args", NoUser, parse_traffic_from_args(a), "parsed",
              <<"parse_traffic_from_args">>, a)
    /\ UNCHANGED <<users, clock>>

parsed_returns(p) ==
    /\ pc[p] = "parsed"
    /\ goes(p, "done", << >>)
    /\ UNCHANGED <<users, clock>>

NextParser ==
    \/ \E p \in Slots, a \in ParserArgs : parses(p, a)
    \/ \E p \in Slots : parsed_returns(p)
SpecParser == Started(1, << >>, {<< >>}) /\ [][NextParser]_vars

\* /start and /gift of subscribers, with the failures of the store and of the
\* Bot API
FaultInputs ==
    [users |-> TgUsers(MaxUsers, 2) \cup {NoUser},
     args |-> {<< >>},
     outcomes |-> {"member", "left"}]

NextFaults ==
    \/ \E p \in Slots, user \in FaultInputs.users, args \in FaultInputs.args :
          start(p, user, args)
    \/ \E p \in Slots, user \in FaultInputs.users : gift(p, user)
    \/ Answers(FaultInputs)
    \/ \E p \in Slots :
          check_subscription_returns(p) \/ send_gift_returns(p) \/ send_message_returns(p)
SpecFaults == Init /\ [][NextFaults]_vars

\* mark_gift_given(u) called again and again for one user id, with or without
\* a row, on the tables of MarkTables
MarkTables ==
    {Table(n, k, how, g) : n \in 0..(MaxUsers + 1), k \in 1..2, how \in Spreads, g \in Gifts}

marks(p, u) ==
    /\ \/ arrives(p) /\ pc[p] = "idle"
       \/ pc[p] = "marking" /\ user_id[p] = u /\ Len(calls[p]) < MaxMarks
    /\ \E now \in Now :
          /\ users' = mark_gift_given(users, u, now)
          /\ clock' = now
    /\ stands(p, "mark_gift_given", u, "marking", calls[p] \o <<"mark_gift_given">>,
              NoTraffic, "-", FALSE, NoData)

InitMarks == \E table \in MarkTables : Started(1, table, {<< >>})
NextMarks == \E p \in Slots, u \in 1..(MaxUsers + 2) : marks(p, u)
SpecMarks == InitMarks /\ [][NextMarks]_vars

(* ------------------------------ claims -------------------------------- *)
\* hasRewarded as the table holds it
rewarded(u) == u \in DOMAIN users /\ users[u].is_gift_given
rewarded_next(u) == u \in DOMAIN users' /\ users'[u].is_gift_given

\* how often the handler of slot p has made `call`, before and after a step
count(p, call) == Cardinality({i \in 1..Len(calls[p]) : calls[p][i] = call})
count_next(p, call) == Cardinality({i \in 1..Len(calls'[p]) : calls'[p][i] = call})

last_call(p) == IF calls[p] = << >> THEN "-" ELSE calls[p][Len(calls[p])]
last_call_next(p) == IF calls'[p] = << >> THEN "-" ELSE calls'[p][Len(calls'[p])]

\* the handlers of the three trigger kinds and the prompts they send
Workflow == {"start", "gift", "button_handler"}
JoinPrompts ==
    {"send_message:join_keyboard", "send_message:join_text",
     "edit_message_text:not_subscribed"}

\* the step is one of the handler of slot p
steps(p) == pc'[p] # pc[p]

\* the handler of slot p gets the result of check_subscription in this step
verified_in_step(p) == pc[p] = "check_subscription" /\ steps(p) /\ ~over(pc'[p])

\* the handler of slot p runs has_gift in this step and has_gift returns
checks_in_step(p) ==
    /\ pc[p] \in {"check_subscription", "delete"}
    /\ pc'[p] \in {"send_message", "send_gift"}
    /\ is_subscribed'[p]

\* C1: a trigger (start, gift, button) whose check_subscription returns False
\* makes no send_gift call and no has_gift or mark_gift_given call, changes no
\* row after the upsert it began with, and sends the join prompt of its handler.
C1_NotSubscribedNoReward ==
    [][\A p \in Slots :
          /\ (verified_in_step(p) /\ ~is_subscribed'[p]) =>
                /\ pc'[p] = "send_message"
                /\ count_next(p, "upsert_user") = 1
                /\ count_next(p, "has_gift") = 0
                /\ count_next(p, "send_gift") = 0
                /\ count_next(p, "mark_gift_given") = 0
                /\ last_call_next(p) \in JoinPrompts
                /\ users' = users
          /\ (pc[p] = "send_message" /\ handler[p] \in Workflow
                /\ ~is_subscribed[p] /\ steps(p)) =>
                /\ over(pc'[p])
                /\ users' = users]_vars

\* C1 witness: a button press of a user who is not subscribed has been answered
\* with the prompt, and the user has a row without the flag
C1_Witness ==
    \E p \in Slots :
        /\ handler[p] = "button_handler"
        /\ pc[p] = "send_message"
        /\ ~is_subscribed[p]
        /\ last_call(p) = "edit_message_text:not_subscribed"
        /\ user_id[p] \in DOMAIN users
        /\ ~rewarded(user_id[p])

\* C2: a trigger of a subscribed user whose flag is not set makes exactly one
\* send_gift call, and when send_gift and mark_gift_given both return, the
\* handler is done and the flag of the user is set.
C2_GrantSetsFlagOneDelivery ==
    [][\A p \in Slots :
          /\ (checks_in_step(p) /\ ~rewarded(user_id[p])) =>
                /\ pc'[p] = "send_gift"
                /\ count_next(p, "send_gift") = 1
          /\ (pc[p] = "send_gift" /\ pc'[p] = "done") =>
                /\ rewarded_next(user_id[p])
                /\ count(p, "send_gift") = 1
                /\ is_subscribed[p]]_vars

\* C2 witness: a handler is done and the flag of user 1 is set
C2_Witness == pc[1] = "done" /\ rewarded(1)

\* C3: a trigger of a subscribed user whose flag is set when has_gift reads it
\* makes no send_gift call, sends the "already" notice and changes no row.
C3_AlreadyRewardedNoDelivery ==
    [][\A p \in Slots :
          /\ (checks_in_step(p) /\ rewarded(user_id[p])) =>
                /\ pc'[p] = "send_message"
                /\ last_call_next(p) = "send_message:already"
                /\ count_next(p, "send_gift") = 0
                /\ count_next(p, "mark_gift_given") = 0
                /\ users' = users
          /\ (pc[p] = "send_message" /\ last_call(p) = "send_message:already"
                /\ steps(p)) =>
                /\ over(pc'[p])
                /\ users' = users]_vars

\* C3 witness: a handler has sent the "already" notice to a user whose flag is set
C3_Witness ==
    \E p \in Slots :
        /\ pc[p] = "send_message"
        /\ last_call(p) = "send_message:already"
        /\ is_subscribed[p]
        /\ rewarded(user_id[p])

\* C4: the flag of a user is never reset, and it is set only by the step in
\* which send_gift and mark_gift_given of a handler of that user return.
C4_FlagMonotonic ==
    [][\A u \in DOMAIN users \cup DOMAIN users' :
          /\ rewarded(u) => rewarded_next(u)
          /\ (~rewarded(u) /\ rewarded_next(u)) =>
                \E p \in Slots :
                    /\ pc[p] = "send_gift"
                    /\ user_id[p] = u
                    /\ pc'[p] = "done"]_vars

\* C4 witness: a user whose flag is set has been upserted again
C4_Witness ==
    \E p \in Slots :
        /\ pc[p] = "get_chat_member"
        /\ last_call(p) = "get_chat_member"
        /\ rewarded(user_id[p])

\* the handlers that have made the send_gift call for user u and are not over
delivering(u) == {p \in Slots : user_id[p] = u /\ count(p, "send_gift") > 0}

\* C5: in every reachable state, handlers running at the same time included, no
\* handler is in the grant branch (send_gift called, mark_gift_given still to
\* come) for a user whose flag is already set.
C5_GrantAtMostOnce ==
    \A p \in Slots : pc[p] = "send_gift" => ~rewarded(user_id[p])

\* C6: whatever the number of handlers running at the same time for one
\* subscribed user, at most two of them make the send_gift call.
C6_AtMostOneDuplicate ==
    \A u \in 1..MaxUsers : Cardinality(delivering(u)) <= 2

\* the attribution columns of a row
AttributionFields == {"traffic_source", "utm_source", "utm_medium", "utm_campaign"}

\* what the table holds for column f of user u; NULL when there is no row
stored(tbl, u, f) == IF u \in DOMAIN tbl THEN tbl[u][f] ELSE None

\* the handler of slot p runs upsert_user in this step and upsert_user returns
upserts_in_step(p) == pc[p] # "get_chat_member" /\ pc'[p] = "get_chat_member"

\* C7 as the claim states it (first touch): an attribution column that is not
\* NULL is never changed by a later upsert.
C7_FirstTouch ==
    [][\A u \in DOMAIN users : \A f \in AttributionFields :
          users[u][f] # None => users'[u][f] = users[u][f]]_vars

\* C7 as the code has it (last touch): an upsert stores every attribution value
\* it carries that is not None, B after A included, and keeps the stored value
\* of every column for which it carries None; no other step changes an
\* attribution column, and a column that is not NULL never becomes NULL.
C7_LastTouch ==
    [][/\ \A p \in Slots : upserts_in_step(p) =>
             \A f \in AttributionFields :
                 stored(users', user_id'[p], f) =
                     IF traffic'[p][f] # None
                     THEN traffic'[p][f]
                     ELSE stored(users, user_id'[p], f)
       /\ \A u \in DOMAIN users : \A f \in AttributionFields :
             /\ users[u][f] # None => stored(users', u, f) # None
             /\ stored(users', u, f) # users[u][f] =>
                   \E p \in Slots : upserts_in_step(p) /\ user_id'[p] = u]_vars

\* C7 witness: user 1 came with the utm payload (traffic_source "fb") and then
\* with the label "ig": the label has replaced the stored traffic_source
C7_Witness ==
    /\ 1 \in DOMAIN users
    /\ users[1].traffic_source = PAYLOAD_LABEL
    /\ users[1].utm_source = <<"f", "b">>
    /\ \E p \in Slots : handler[p] = "start" /\ traffic[p].traffic_source = PAYLOAD_LABEL

\* the statuses of a subscriber
AcceptedStatuses == {"member", "administrator", "creator"}

\* the handler of slot p holds the result of check_subscription
holds_result(p) == pc[p] \in {"delete", "send_gift", "send_message"}

\* C8: check_subscription returns True exactly for the answers member,
\* administrator and creator of get_chat_member; for every other status, and
\* when get_chat_member raises, it returns False and the handler goes on to
\* its join prompt: the error does not reach the handler.
C8_VerifierFailsClosed ==
    [][\A p \in Slots :
          /\ (holds_result(p) /\ handler[p] \in Workflow) =>
                (is_subscribed[p] <=> member[p] \in AcceptedStatuses)
          /\ (pc[p] = "check_subscription" /\ steps(p)) =>
                IF member[p] \in AcceptedStatuses
                THEN pc'[p] = "raised" \/ is_subscribed'[p]
                ELSE /\ pc'[p] = "send_message"
                     /\ ~is_subscribed'[p]
                     /\ last_call_next(p) \in JoinPrompts]_vars

\* C8 witness: get_chat_member raised and the handler has sent its join prompt
C8_Witness ==
    \E p \in Slots :
        /\ member[p] = "raise"
        /\ pc[p] = "send_message"
        /\ ~is_subscribed[p]
        /\ last_call(p) \in JoinPrompts

\* C9: whatever ADMIN_IDS holds, the empty set included, a /stats of a user
\* whose id is not in ADMIN_IDS is answered with the denial, and its handler
\* neither runs get_stats nor holds its data.
C9_StatsGated ==
    \A p \in Slots :
        (handler[p] = "stats" /\ user_id[p] \notin ADMIN_IDS) =>
            /\ last_call(p) = "send_message:denied"
            /\ count(p, "get_stats") = 0
            /\ data[p] = NoData

\* the source a row counts for, the rows of a source, and the sources of the table
label(u) == IF users[u].traffic_source = None THEN UNKNOWN ELSE users[u].traffic_source
members(l) == {u \in DOMAIN users : label(u) = l}
labels == {label(u) : u \in DOMAIN users}

RECURSIVE sum_totals(_)
sum_totals(rows) == IF rows = << >> THEN 0 ELSE Head(rows).total + sum_totals(Tail(rows))

\* the handler of slot p holds the data of get_stats and is sending the report
reported(p) == pc[p] = "send_message" /\ last_call(p) = "send_message:report"

\* every entry of the breakdown is a source of the table with its counts
exact(rows) ==
    \A i \in 1..Len(rows) :
        /\ rows[i].src \in labels
        /\ rows[i].total = Cardinality(members(rows[i].src))
        /\ rows[i].gifted = Cardinality({u \in members(rows[i].src) : users[u].is_gift_given})

\* no source twice, larger totals first
descending(rows) ==
    \A i \in 1..Len(rows) : \A j \in 1..Len(rows) :
        i < j => rows[i].src # rows[j].src /\ rows[i].total >= rows[j].total

\* C10 as the claim states it: get_stats reports total_users = N, the totals
\* of the breakdown sum to N, every entry has the gifted count of its source,
\* and the breakdown has at most 10 entries in descending order of total.
C10_TotalsSumToN ==
    \A p \in Slots : reported(p) =>
        /\ data[p].total_users = Cardinality(DOMAIN users)
        /\ sum_totals(data[p].sources) = Cardinality(DOMAIN users)
        /\ exact(data[p].sources)
        /\ Len(data[p].sources) <= STATS_LIMIT
        /\ descending(data[p].sources)

\* C10 as the code has it: get_stats reports total_users = N and gifted_users =
\* the number of rows with the flag; the breakdown lists the min(K, 10) largest
\* of the K sources, each once with its exact counts, in descending order of
\* total; its totals sum to N when K <= 10 and to less than N when K > 10.
C10_TopTen ==
    \A p \in Slots : reported(p) =>
        /\ data[p].total_users = Cardinality(DOMAIN users)
        /\ data[p].gifted_users = Cardinality({u \in DOMAIN users : users[u].is_gift_given})
        /\ Len(data[p].sources) = Min(Cardinality(labels), STATS_LIMIT)
        /\ exact(data[p].sources)
        /\ descending(data[p].sources)
        /\ \A l \in labels :
              (\A i \in 1..Len(data[p].sources) : data[p].sources[i].src # l) =>
                  \A i \in 1..Len(data[p].sources) :
                      Cardinality(members(l)) <= data[p].sources[i].total
        /\ IF Cardinality(labels) <= STATS_LIMIT
           THEN sum_totals(data[p].sources) = Cardinality(DOMAIN users)
           ELSE sum_totals(data[p].sources) < Cardinality(DOMAIN users)

\* C10 witness: a report over a table of more than 10 sources, some rows with
\* the flag, whose breakdown is cut to 10 entries of unequal totals
C10_Witness ==
    \E p \in Slots :
        /\ reported(p)
        /\ Cardinality(labels) > STATS_LIMIT
        /\ Len(data[p].sources) = STATS_LIMIT
        /\ data[p].sources[1].total > data[p].sources[STATS_LIMIT].total
        /\ data[p].gifted_users > 0

\* C11: the table is keyed by user_id (PRIMARY KEY), so it holds at most one
\* row per user; no step removes a row; a row appears only in the step in which
\* a handler of that user runs upsert_user; an upsert of a user who has a row
\* keeps its created_at; and every handler past its upsert finds the row of
\* its user.
C11_OneRowPerUser ==
    [][/\ DOMAIN users \subseteq DOMAIN users'
       /\ \A u \in DOMAIN users' \ DOMAIN users :
             \E p \in Slots : upserts_in_step(p) /\ user_id'[p] = u
       /\ \A u \in DOMAIN users : users'[u].created_at = users[u].created_at
       /\ \A p \in Slots :
             (handler'[p] \in Workflow /\ ~over(pc'[p])) => user_id'[p] \in DOMAIN users']_vars

\* C11 witness: a user who had a row has been upserted again at a later time
\* and the row still has the created_at of the insert
C11_Witness ==
    \E p \in Slots :
        /\ pc[p] = "get_chat_member"
        /\ user_id[p] \in DOMAIN users
        /\ ~rewarded(user_id[p])
        /\ users[user_id[p]].created_at < users[user_id[p]].updated_at

\* C12: a call of mark_gift_given for a user with a row leaves the flag set and
\* changes nothing but the flag and updated_at; a second call changes nothing
\* but updated_at; a call for a user without a row changes nothing; and every
\* call returns.
C12_MarkIdempotent ==
    [][\A p \in Slots :
          (handler'[p] = "mark_gift_given" /\ calls'[p] # calls[p]) =>
              /\ pc'[p] = "marking"
              /\ DOMAIN users' = DOMAIN users
              /\ \A u \in DOMAIN users :
                    IF u # user_id'[p]
                    THEN users'[u] = users[u]
                    ELSE /\ users'[u].is_gift_given
                         /\ users'[u] = [users[u] EXCEPT
                                            !.is_gift_given = TRUE,
                                            !.updated_at = users'[u].updated_at]
                         /\ calls[p] # << >> =>
                               users'[u] = [users[u] EXCEPT
                                               !.updated_at = users'[u].updated_at]]_vars

\* C12 witness: mark_gift_given has been called twice for a user who has a row
\* with a traffic_source, the second time at a later time than the first
C12_Witness ==
    \E p \in Slots :
        /\ count(p, "mark_gift_given") = 2
        /\ rewarded(user_id[p])
        /\ users[user_id[p]].traffic_source # None
        /\ users[user_id[p]].updated_at > users[user_id[p]].created_at

\* what the first piece of q that gives the key a value gives it; None when no
\* piece does
given(q, key) ==
    IF \E i \in 1..Len(q) : q[i].name = key /\ q[i].value.text # << >>
    THEN q[CHOOSE i \in 1..Len(q) :
               /\ q[i].name = key /\ q[i].value.text # << >>
               /\ \A j \in 1..(i - 1) : ~(q[j].name = key /\ q[j].value.text # << >>)].value.means
    ELSE None

\* the attribution of a utm payload whose utm_source, utm_medium, utm_campaign are s, m, c
utm_attribution(s, m, c) ==
    [traffic_source |-> IF s = None THEN <<"u", "t", "m">> ELSE s,
     utm_source |-> s, utm_medium |-> m, utm_campaign |-> c]

\* C13: for a payload "utm:" followed by pieces name=value joined by '&',
\* parse_traffic_from_args returns as utm_source, utm_medium and utm_campaign
\* the value given for the key of that name (the first one, read in
\* query-string encoding; None when no piece gives the key a value), whatever
\* other keys the payload holds, and as traffic_source the utm_source, or "utm"
\* when that is None; the payload of the docstring gives insta, insta, story,
\* launch1.
C13_UtmPayloadParsed ==
    \A p \in Slots : pc[p] = "parsed" =>
        /\ \A q \in Queries(MaxPairs) :
              context_args[p] = <<payload_of(q)>> =>
                  traffic[p] = utm_attribution(given(q, KEY_UTM_SOURCE),
                                               given(q, KEY_UTM_MEDIUM),
                                               given(q, KEY_UTM_CAMPAIGN))
        /\ context_args[p] = <<PAYLOAD_EXAMPLE>> =>
              traffic[p] = utm_attribution(<<"i", "n", "s", "t", "a">>, <<"s", "t", "o", "r", "y">>, <<"l", "a", "u", "n", "c", "h", "1">>)
        /\ context_args[p] = <<PAYLOAD_NO_EQUALS>> =>
              traffic[p] = utm_attribution(None, None, None)
        /\ context_args[p] = <<PAYLOAD_UTM, PAYLOAD_LABEL>> =>
              traffic[p] = utm_attribution(<<"f", "b">>, <<"x">>, None)

\* C13 witness: the payload of the docstring has been parsed
C13_Witness ==
    \E p \in Slots :
        /\ pc[p] = "parsed"
        /\ context_args[p] = <<PAYLOAD_EXAMPLE>>
        /\ traffic[p].traffic_source = <<"i", "n", "s", "t", "a">>
        /\ traffic[p].utm_campaign = <<"l", "a", "u", "n", "c", "h", "1">>

\* C14: a step in which a handler ends with an exception, the failures of
\* upsert_user and of mark_gift_given among them, leaves every row as it was;
\* a handler whose upsert_user raises ends there, before get_chat_member: a
\* handler that stands at get_chat_member has written the row of its user.
C14_WriteFailureAborts ==
    [][\A p \in Slots :
          /\ (pc[p] # "raised" /\ pc'[p] = "raised") => users' = users
          /\ (free(p) /\ ~over(pc'[p]) /\ handler'[p] \in Workflow) =>
                /\ pc'[p] = "get_chat_member"
                /\ user_id'[p] \in DOMAIN users'
                /\ users'[user_id'[p]].updated_at = clock'
          /\ (pc[p] = "send_gift" /\ steps(p) /\ users' # users) => pc'[p] = "done"]_vars

\* C14 witness: the upsert of the first user raised: the handler is over and
\* the table has no row
C14_Witness ==
    \E p \in Slots :
        /\ pc[p] = "raised"
        /\ last_call(p) = "upsert_user"
        /\ users = << >>
        /\ clock = 0

\* C15: the flag of a user is written only in the step in which the send_gift
\* call of a handler of that user has returned, by that handler calling
\* mark_gift_given once, after its one send_gift; a handler whose send_gift
\* raises ends without a change of the table, and a later handler of a
\* subscribed user whose flag is not set goes to send_gift again.
C15_DeliveryBeforeFlag ==
    [][/\ \A u \in DOMAIN users' :
             (~rewarded(u) /\ rewarded_next(u)) =>
                 \E p \in Slots :
                     /\ user_id[p] = u
                     /\ pc[p] = "send_gift"
                     /\ last_call(p) = "send_gift"
                     /\ count(p, "mark_gift_given") = 0
                     /\ pc'[p] = "done"
       /\ \A p \in Slots :
             /\ (pc'[p] = "raised" /\ pc[p] = "send_gift") =>
                   /\ users' = users
                   /\ last_call_next(p) \in {"send_gift", "mark_gift_given"}
             /\ (checks_in_step(p) /\ ~rewarded(user_id[p])) => pc'[p] = "send_gift"]_vars

\* C15 witness: the send_gift of a handler raised; the user has a row and the
\* flag is not set
C15_Witness ==
    \E p \in Slots :
        /\ pc[p] = "raised"
        /\ last_call(p) = "send_gift"
        /\ 1 \in DOMAIN users
        /\ ~rewarded(1)

\* C16: whatever the handler (start, gift, button_handler), and however often
\* the check has failed before, the prompt a handler sends to a user who is not
\* subscribed shows the button "check_sub_again", and the flag of the user is
\* not set by it.
C16_PromptCarriesRecheck ==
    \A p \in Slots :
        (handler[p] \in Workflow /\ pc[p] = "send_message" /\ ~is_subscribed[p]) =>
            /\ last_call(p) \in JoinPrompts
            /\ "check_sub_again" \in reply_markup_of(last_call(p))

\* the step is one of a stats handler in slot p: it begins, it raises in
\* get_stats, or its message is sent
stats_in_step(p) ==
    \/ handler'[p] = "stats" /\ handler[p] # "stats"
    \/ handler[p] = "stats" /\ steps(p)
    \/ pc'[p] = "raised" /\ calls'[p] = <<"get_stats">> /\ free(p)

\* C17: a stats request, answered with the report or with the refusal, over
\* whatever table, leaves the table as it is: no row is added for the user who
\* asks, and no flag, source, utm field or name of any row changes.
C17_StatsLeavesLedger ==
    [][(\E p \in Slots : stats_in_step(p)) => users' = users]_vars

\* C17 witness: the report has been made for a user who has no row in a table
\* that has rows
C17_Witness ==
    \E p \in Slots :
        /\ handler[p] = "stats"
        /\ pc[p] = "send_message"
        /\ last_call(p) = "send_message:report"
        /\ user_id[p] \notin DOMAIN users
        /\ DOMAIN users # {}

\* the user the handler that steps in slot p works for: the user of the update
\* when the handler begins in this step, the user of the handler otherwise
user_in_step(p) == IF free(p) THEN user_id'[p] ELSE user_id[p]

\* C18: under every interleaving of the handlers of two users, a step of a
\* handler of user u (its upsert, has_gift, send_gift, mark_gift_given, its
\* messages) leaves the row of every other user v as it is (a row is neither
\* added nor removed nor changed in any column, the flag included), and makes
\* no call, a send_gift least of all, in a handler that works for v.
C18_UsersDoNotInterfere ==
    [][\A p \in Slots : steps(p) =>
          /\ \A v \in (DOMAIN users \cup DOMAIN users') \ {user_in_step(p)} :
                /\ v \in DOMAIN users
                /\ v \in DOMAIN users'
                /\ users'[v] = users[v]
          /\ \A q \in Slots \ {p} :
                /\ calls'[q] = calls[q]
                /\ pc'[q] = pc[q]
                /\ user_id'[q] = user_id[q]]_vars

\* C18 witness: user 1 is given the gift (send_gift returned, the flag is about
\* to be written) while a handler of user 2, who has a row without the flag,
\* waits for get_chat_member
C18_Witness ==
    \E p, q \in Slots :
        /\ user_id[p] = 1 /\ pc[p] = "send_gift"
        /\ user_id[q] = 2 /\ pc[q] = "get_chat_member"
        /\ 2 \in DOMAIN users /\ ~rewarded(2)

\* the handler that begins in slot p got no start payload: it is gift or
\* button_handler, or start with empty context.args
without_payload(p) ==
    \/ handler'[p] \in {"gift", "button_handler"}
    \/ handler'[p] = "start" /\ context_args'[p] = << >>

\* C19: the upsert of gift, of button_handler and of a start without payload
\* carries None for traffic_source, utm_source, utm_medium and utm_campaign,
\* and leaves these four columns of the user's row as they were stored (NULL
\* for a user who had no row).
C19_AttributionOnlyFromStart ==
    [][\A p \in Slots : (upserts_in_step(p) /\ without_payload(p)) =>
          \A f \in AttributionFields :
              /\ traffic'[p][f] = None
              /\ stored(users', user_id'[p], f) = stored(users, user_id'[p], f)]_vars

\* C19 witness: the button handler has upserted user 1, whose row holds the
\* values of the utm payload of an earlier start
C19_Witness ==
    \E p \in Slots :
        /\ handler[p] = "button_handler"
        /\ pc[p] = "get_chat_member"
        /\ user_id[p] = 1
        /\ traffic[p] = NoTraffic
        /\ users[1].utm_source = <<"f", "b">>
        /\ users[1].utm_medium = <<"x">>

\* C20: every result of get_stats a stats handler holds has gifted_users <=
\* total_users, and gifted <= total in every row of its sources, also when the
\* handlers of the reward workflow upsert rows and set flags before, between
\* and after the stats handlers.
C20_RewardedAtMostTotal ==
    \A p \in Slots : (handler[p] = "stats" /\ data[p] # NoData) =>
        /\ data[p].gifted_users <= data[p].total_users
        /\ \A i \in 1..Len(data[p].sources) :
              data[p].sources[i].gifted <= data[p].sources[i].total

\* C20 witness: a report of two users, one of them with the flag, is held while
\* a workflow handler has delivered the gift to the other and is about to set
\* the flag
C20_Witness ==
    \E p, q \in Slots :
        /\ handler[p] = "stats"
        /\ data[p].total_users = 2
        /\ data[p].gifted_users = 1
        /\ pc[q] = "send_gift"

=============================================================================
